---- MODULE Spec2Model ----
(***************************************************************************)
(* Model of core/spec_uri_test_generator.go: the generator that turns the  *)
(* connection-string specification vectors into Go test source.            *)
(*                                                                         *)
(* Text is modelled as a sequence of lines, a line as a sequence of        *)
(* tokens.  Every byte that comes from a vector field is one token, so     *)
(* that the byte-level replacements of the code (strings.Replace) act on   *)
(* the model as they act on the bytes; the fixed pieces of the format      *)
(* strings are longer tokens.  The byte 0 is the token NUL.                *)
(***************************************************************************)
EXTENDS Integers, Sequences, FiniteSets, TLC

VARIABLES
    pc,         \* position of the run: main, loop, tests, write, done, fatal, panic
    buf,        \* Generator.buf, the accumulated output, as a sequence of lines
    entries,    \* directory entries generate() still has to visit
    remaining,  \* test definitions of the current file still to be emitted
    testDef,    \* <<>> or <<td>>: the test definition the loop body last took
    mark,       \* length of buf where the block of testDef starts
    src,        \* the bytes generate() returned to main
    fmtErr,     \* "none" before format(), then "ok" or "err" (format.Source)
    outFile,    \* content of the output file spec_uri_test.go
    writes,     \* number of completed ioutil.WriteFile calls
    inputErr,   \* "none", or which input step failed: readdir, readfile, unmarshal
    desc,       \* input of the sanitizer runs (SpecSan)
    tokens      \* successive results of the sanitizer on desc (SpecSan)

vars == <<pc, buf, entries, remaining, testDef, mark, src, fmtErr, outFile,
          writes, inputErr, desc, tokens>>

----------------------------------------------------------------------------
(* Bounds of the model *)

MaxHosts == 2
MaxEntries == 2
MaxTests == 2
MaxLen == 3
MaxApply == 2

----------------------------------------------------------------------------
(* Bytes and strings *)

NUL == "NUL"
DQ == "\""
BS == "\\"

name == "spec_uri_test_generator"

\* strings.Replace(s, old, new, 1) for a one-byte old: the first occurrence only
RECURSIVE ReplaceFirst(_, _, _)
ReplaceFirst(s, old, new) ==
    IF s = <<>> THEN <<>>
    ELSE IF Head(s) = old THEN new \o Tail(s)
    ELSE <<Head(s)>> \o ReplaceFirst(Tail(s), old, new)

\* strings.Replace(s, old, new, -1) for a one-byte old: every occurrence
RECURSIVE Replace(_, _, _)
Replace(s, old, new) ==
    IF s = <<>> THEN <<>>
    ELSE (IF Head(s) = old THEN new ELSE <<Head(s)>>) \o Replace(Tail(s), old, new)

DigitChar(d) == <<"0", "1", "2", "3", "4", "5", "6", "7", "8", "9">>[d + 1]

RECURSIVE Digits(_)
Digits(n) ==
    IF n < 10 THEN <<DigitChar(n)>>
    ELSE Digits(n \div 10) \o <<DigitChar(n % 10)>>

\* fmt's %d verb
Sprintd(n) == IF n < 0 THEN <<"-">> \o Digits(0 - n) ELSE Digits(n)

\* fmt's %v verb on a mapping value: a string prints as itself, a bool as
\* true or false
Sprintv(value) ==
    IF value.t = "str" THEN value.s
    ELSE IF value.b THEN <<"t", "r", "u", "e">>
    ELSE <<"f", "a", "l", "s", "e">>

QuoteByte(c) ==
    IF c = NUL THEN <<BS, "x", "0", "0">>
    ELSE IF c = DQ THEN <<BS, DQ>>
    ELSE IF c = BS THEN <<BS, BS>>
    ELSE <<c>>

RECURSIVE QuoteBytes(_)
QuoteBytes(s) ==
    IF s = <<>> THEN <<>> ELSE QuoteByte(Head(s)) \o QuoteBytes(Tail(s))

\* fmt's %q verb: a double-quoted, Go-escaped string literal
Quote(s) == <<DQ>> \o QuoteBytes(s) \o <<DQ>>

----------------------------------------------------------------------------
(* The print helpers of Generator *)

\* printf with a format that is only line ends: the lines it completes
printf(b, lines) == b \o lines

printlnf(b, line) == Append(b, line)

printIfNotEqual(b, nm, expected) ==
    LET b1 == printlnf(b, <<"if ">> \o nm \o <<" != ">> \o expected \o <<" {">>)
        b2 == printlnf(b1,
                <<"t.Fatalf(", DQ, "expected ">> \o Replace(nm, DQ, <<BS, DQ>>)
                \o <<" to be ">> \o Replace(expected, DQ, <<BS, DQ>>)
                \o <<", but got ", BS, DQ, "%s", BS, DQ, DQ, ", ">> \o nm \o <<")">>)
    IN  printlnf(b2, <<"}">>)

printStringIfNotEqual(b, nm, expected) ==
    printIfNotEqual(b, nm, <<DQ>> \o expected \o <<DQ>>)

RECURSIVE replaceLoop(_, _, _, _, _)
replaceLoop(target, old, new, i, j) ==
    IF i > Len(old) THEN target
    ELSE replaceLoop(Replace(target, old[i], <<new[j]>>), old, new, i + 1,
                     IF j < Len(new) THEN j + 1 ELSE j)

RECURSIVE replaceLoopFirst(_, _, _, _, _)
replaceLoopFirst(target, old, new, i, j) ==
    IF i > Len(old) THEN target
    ELSE replaceLoopFirst(ReplaceFirst(target, old[i], <<new[j]>>), old, new, i + 1,
                          IF j < Len(new) THEN j + 1 ELSE j)

\* the sanitizer with strings.Replace(..., 1) in place of (..., -1)
replaceCharactersFirst(target, old, new) == replaceLoopFirst(target, old, new, 1, 1)

replaceCharacters(target, old, new) == replaceLoop(target, old, new, 1, 1)

replaceNullCharacter(target) == Replace(target, NUL, <<BS, "x", "0", "0">>)

\* the arguments of the call at line 132
Disallowed == <<" ", "'", "-", ",", "(", ")">>
Replacement == <<"_">>

----------------------------------------------------------------------------
(* The vectors: testDef, host, auth.  A nil *auth is <<>>, a non-nil one    *)
(* <<a>>.  options is a function from the keys present to their values; a  *)
(* nil and an empty map both have the empty domain.  The field warning is  *)
(* never read by the generator and is left out.                            *)

\* the bracketing applied whatever the type
hostStringBracketAll(h) ==
    LET s == <<"[">> \o h.host \o <<"]">>
    IN  IF h.port # 0 THEN s \o <<":">> \o Sprintd(h.port) ELSE s

hostString(h) ==
    LET s == IF h.type = "ip_literal" THEN <<"[">> \o h.host \o <<"]">> ELSE h.host
    IN  IF h.port # 0 THEN s \o <<":">> \o Sprintd(h.port) ELSE s

HostSet ==
    { [type |-> "hostname", host |-> <<"h">>, port |-> 0],
      [type |-> "ip_literal", host |-> <<":", ":", "1">>, port |-> 27017],
      [type |-> "hostname", host |-> <<"h", NUL>>, port |-> 27017] }

HostSeqs(n) == UNION { [1..k -> HostSet] : k \in 0..n }

Auths(U, P, D) ==
    {<<>>} \cup { <<[username |-> u, password |-> p, db |-> d]>> : u \in U, p \in P, d \in D }

\* the value of authmechanismproperties: a mapping with a string and a bool
Props ==
    [ k \in {<<"s">>, <<"c", NUL>>} |->
        IF k = <<"s">> THEN [t |-> "str", s |-> <<"o", NUL>>, b |-> FALSE]
        ELSE [t |-> "bool", s |-> <<>>, b |-> TRUE] ]

\* each argument is <<>> (key missing) or <<value>>
MkOptions(am, amp, rs, wt, other) ==
    LET keys == (IF am # <<>> THEN {"authmechanism"} ELSE {})
                \cup (IF amp # <<>> THEN {"authmechanismproperties"} ELSE {})
                \cup (IF rs # <<>> THEN {"replicaset"} ELSE {})
                \cup (IF wt # <<>> THEN {"wtimeoutms"} ELSE {})
                \cup (IF other # <<>> THEN {"journal"} ELSE {})
    IN  [ k \in keys |->
            CASE k = "authmechanism" -> am[1]
              [] k = "authmechanismproperties" -> amp[1]
              [] k = "replicaset" -> rs[1]
              [] k = "wtimeoutms" -> wt[1]
              [] OTHER -> other[1] ]

NoOptions == MkOptions(<<>>, <<>>, <<>>, <<>>, <<>>)

RichOptions ==
    { MkOptions(am, amp, rs, wt, other) :
        am \in {<<>>, << <<"M", NUL>> >>},
        amp \in {<<>>, <<Props>>},
        rs \in {<<>>, << <<"r">> >>},
        wt \in {<<>>, <<1000>>, <<5000>>},
        other \in {<<>>, << <<"x">> >>} }

Vectors(D, U, HS, A, O) ==
    { [description |-> d, uri |-> u, valid |-> v, hosts |-> hs, auth |-> a, options |-> o] :
        d \in D, u \in U, v \in BOOLEAN, hs \in HS, a \in A, o \in O }

RichVectors ==
    Vectors({<<"a", " ", "b">>},
            {<<"m", "/">>, <<"m", NUL>>},
            HostSeqs(MaxHosts),
            Auths({<<>>, <<"u", NUL>>}, {<<>>, <<"p">>}, {<<>>, <<"d", NUL>>}),
            RichOptions)

SmallVectors ==
    Vectors({<<"a", "-", "b">>},
            {<<"m", "/">>},
            {<< [type |-> "hostname", host |-> <<"h">>, port |-> 0] >>},
            Auths({<<"u">>}, {<<"p">>}, {<<"d">>}),
            {MkOptions(<<>>, <<>>, <<>>, <<1000>>, <<>>)})

\* the orders in which a range over the mapping m can visit its keys
Orders(m) ==
    { s \in [1..Cardinality(DOMAIN m) -> DOMAIN m] :
        \A k \in DOMAIN m : \E i \in DOMAIN s : s[i] = k }

PropsOf(td) ==
    IF "authmechanismproperties" \in DOMAIN td.options
    THEN td.options["authmechanismproperties"]
    ELSE <<>>

----------------------------------------------------------------------------
(* The loop body of generateFromFile, piece by piece *)

FuncLine(td) ==
    <<"func TestParseURI_">> \o replaceCharacters(td.description, Disallowed, Replacement)
    \o <<"(t *testing.T) {">>

\* lines 144-147
EmitParse(b, td) ==
    LET b1 == printlnf(b, <<"uri, err := ParseURI(">> \o Quote(td.uri) \o <<")">>)
        b2 == printlnf(b1, <<"if ", "err != nil", " {">>)
        b3 == printlnf(b2, <<"t.Fatalf(", DQ, "error parsing ", BS, DQ, "%s", BS, DQ,
                             ": %s", DQ, ", ", DQ>> \o td.uri \o <<DQ, ",  err)">>)
    IN  printlnf(b3, <<"}">>)

RECURSIVE hostLoop(_, _, _)
hostLoop(b, hosts, i) ==
    IF i > Len(hosts) THEN b
    ELSE hostLoop(printStringIfNotEqual(b, <<"uri.Hosts[">> \o Sprintd(i - 1) \o <<"]">>,
                                        hostString(hosts[i])),
                  hosts, i + 1)

\* lines 150-155
EmitHosts(b, td) ==
    LET b1 == printlnf(b, <<"if ", "len(uri.Hosts)", " != ">> \o Sprintd(Len(td.hosts)) \o <<" {">>)
        b2 == printlnf(b1, <<"t.Fatalf(", DQ, "expected ">> \o Sprintd(Len(td.hosts))
                           \o <<" hosts, but had %d: %v", DQ, ", len(uri.Hosts), uri.Hosts)">>)
        b3 == printlnf(b2, <<"}">>)
    IN  hostLoop(b3, td.hosts, 1)

\* the negative branch without its continue: the host checks follow
EmitInvalidFallThrough(b, td) ==
    LET b1 == printlnf(b, <<"_, err := ParseURI(">> \o Quote(td.uri) \o <<")">>)
        b2 == printlnf(b1, <<"if ", "err == nil", " {">>)
        b3 == printlnf(b2, <<"t.Fatal(\"expected an error but didn't get one\")">>)
        b4 == printlnf(b3, <<"}">>)
    IN  printlnf(EmitHosts(b4, td), <<"}">>)

\* lines 136-140
EmitInvalid(b, td) ==
    LET b1 == printlnf(b, <<"_, err := ParseURI(">> \o Quote(td.uri) \o <<")">>)
        b2 == printlnf(b1, <<"if ", "err == nil", " {">>)
        b3 == printlnf(b2, <<"t.Fatal(\"expected an error but didn't get one\")">>)
        b4 == printlnf(b3, <<"}">>)
    IN  printlnf(b4, <<"}">>)

\* the credentials emitted as for a present auth with empty fields
EmitAuthNoFlag(b, td) ==
    LET a == IF td.auth = <<>> THEN [username |-> <<>>, password |-> <<>>] ELSE td.auth[1]
        b1 == printStringIfNotEqual(b, <<"uri.Username">>, replaceNullCharacter(a.username))
    IN  printStringIfNotEqual(b1, <<"uri.Password">>, replaceNullCharacter(a.password))

\* lines 158-166
EmitAuth(b, td) ==
    IF td.auth = <<>>
    THEN LET b1 == printStringIfNotEqual(b, <<"uri.Username">>, <<>>)
             b2 == printlnf(b1, <<"if ", "uri.PasswordSet", " {">>)
             b3 == printlnf(b2, <<"t.Fatalf(\"expected password to not be set\")">>)
         IN  printlnf(b3, <<"}">>)
    ELSE LET b1 == printStringIfNotEqual(b, <<"uri.Username">>,
                                         replaceNullCharacter(td.auth[1].username))
         IN  printStringIfNotEqual(b1, <<"uri.Password">>,
                                   replaceNullCharacter(td.auth[1].password))

\* line 169 dereferences testDef.Auth: with a nil Auth the run panics there
DerefPanics(td) == td.auth = <<>>

\* line 169, Auth not nil
EmitDatabase(b, td) ==
    printStringIfNotEqual(b, <<"uri.Database">>, replaceNullCharacter(td.auth[1].db))

RECURSIVE propLoop(_, _, _, _)
propLoop(b, m, ord, i) ==
    IF i > Len(ord) THEN b
    ELSE propLoop(printStringIfNotEqual(b,
                      <<"uri.AuthMechanismProperties[", DQ>> \o ord[i] \o <<DQ, "]">>,
                      replaceNullCharacter(Sprintv(m[ord[i]]))),
                  m, ord, i + 1)

\* lines 172-192; ord is the order in which the range at line 180 visits the keys
EmitOptions(b, td, ord) ==
    LET o == td.options
        b1 == IF "authmechanism" \in DOMAIN o
              THEN printStringIfNotEqual(b, <<"uri.AuthMechanism">>,
                                         replaceNullCharacter(o["authmechanism"]))
              ELSE printStringIfNotEqual(b, <<"uri.AuthMechanism">>, <<>>)
        b2 == IF "authmechanismproperties" \in DOMAIN o
              THEN propLoop(b1, o["authmechanismproperties"], ord, 1)
              ELSE b1
        b3 == IF "replicaset" \in DOMAIN o
              THEN printStringIfNotEqual(b2, <<"uri.ReplicaSet">>,
                                         replaceNullCharacter(o["replicaset"]))
              ELSE printStringIfNotEqual(b2, <<"uri.ReplicaSet">>, <<>>)
        b4 == IF "wtimeoutms" \in DOMAIN o
              THEN printIfNotEqual(b3, <<"uri.WTimeout">>,
                                   <<"time.Duration(">> \o Sprintd(o["wtimeoutms"])
                                   \o <<") * time.Millisecond">>)
              ELSE b3
    IN  IF DOMAIN o # {} THEN b4 ELSE b

----------------------------------------------------------------------------
(* The run: main, generate, generateFromFile *)

\* a file's bytes: whether they went through format.Source, and the text
Content(formatted, text) == [formatted |-> formatted, text |-> text]

Prior == Content(TRUE, << <<"// prior content">> >>)
Truncated == Content(FALSE, <<>>)

\* format.Source of the standard library, as a function of the text that
\* is not the identity; whether it fails is left open
FormatSource(b) == Content(TRUE, b)

\* format() dropping the buffer when format.Source fails
formatDropOnError(b, ok) == IF ok THEN FormatSource(b) ELSE Content(FALSE, <<>>)

format(b, ok) == IF ok THEN FormatSource(b) ELSE Content(FALSE, b)

EntrySet ==
    { [isDir |-> TRUE, ext |-> ".yml"],
      [isDir |-> FALSE, ext |-> ".json"],
      [isDir |-> FALSE, ext |-> ".yml"] }

EntrySeqs == UNION { [1..k -> EntrySet] : k \in 0..MaxEntries }

Skipped(e) == e.isDir \/ e.ext # ".yml"

\* log.Fatalf that logs and lets the run go on
FatalfGoOn(kind) == pc' = "loop" /\ inputErr' = kind

\* log.Fatalf on an input step: the process exits
Fatalf(kind) == pc' = "fatal" /\ inputErr' = kind

Preamble ==
    << <<"// Code generated by ", DQ, name, ".go", DQ, "; DO NOT EDIT">>,
       <<>>,
       <<"package core_test">>,
       <<"import \"testing\"">>,
       <<"import \"time\"">>,
       <<"import . \"github.com/10gen/mongo-go-driver/core\"">> >>

Init ==
    /\ pc = "main"
    /\ buf = <<>>
    /\ entries = <<>>
    /\ remaining = 0
    /\ testDef = <<>>
    /\ mark = 0
    /\ src = Truncated
    /\ fmtErr = "none"
    /\ outFile = Prior
    /\ writes = 0
    /\ inputErr = "none"
    /\ desc = <<>>
    /\ tokens = <<>>

\* main up to the directory listing of generate
Main ==
    /\ pc = "main"
    /\ buf' = printf(buf, Preamble)
    /\ \/ Fatalf("readdir") /\ UNCHANGED entries
       \/ \E es \in EntrySeqs : entries' = es /\ pc' = "loop" /\ UNCHANGED inputErr
    /\ UNCHANGED <<remaining, testDef, mark, src, fmtErr, outFile, writes, desc, tokens>>

SkipEntry ==
    /\ pc = "loop"
    /\ entries # <<>>
    /\ Skipped(Head(entries))
    /\ entries' = Tail(entries)
    /\ UNCHANGED <<pc, buf, remaining, testDef, mark, src, fmtErr, outFile, writes,
                   inputErr, desc, tokens>>

\* generateFromFile up to its loop: the read and the unmarshal
generateFromFile ==
    /\ pc = "loop"
    /\ entries # <<>>
    /\ ~Skipped(Head(entries))
    /\ entries' = Tail(entries)
    /\ \/ Fatalf("readfile") /\ UNCHANGED remaining
       \/ Fatalf("unmarshal") /\ UNCHANGED remaining
       \/ \E n \in 0..MaxTests :
            /\ remaining' = n
            /\ pc' = IF n = 0 THEN "loop" ELSE "tests"
            /\ UNCHANGED inputErr
    /\ UNCHANGED <<buf, testDef, mark, src, fmtErr, outFile, writes, desc, tokens>>

\* what the loop body appends for td before it ends or panics
EmitBlock(b, td, ord) ==
    LET b1 == printlnf(printf(b, << <<>>, <<>> >>), FuncLine(td))
    IN  IF ~td.valid THEN EmitInvalid(b1, td)
        ELSE LET b2 == EmitAuth(EmitHosts(EmitParse(b1, td), td), td)
             IN  IF DerefPanics(td) THEN b2
                 ELSE printlnf(EmitOptions(EmitDatabase(b2, td), td, ord), <<"}">>)

\* one turn of the loop of generateFromFile over a test definition of V
EmitTest(V) ==
    /\ pc = "tests"
    /\ remaining > 0
    /\ \E td \in V : \E ord \in Orders(PropsOf(td)) :
         /\ testDef' = <<td>>
         /\ mark' = Len(buf) + 2
         /\ buf' = EmitBlock(buf, td, ord)
         /\ IF td.valid /\ DerefPanics(td)
            THEN pc' = "panic" /\ UNCHANGED remaining
            ELSE /\ remaining' = remaining - 1
                 /\ pc' = IF remaining = 1 THEN "loop" ELSE "tests"
    /\ UNCHANGED <<entries, src, fmtErr, outFile, writes, inputErr, desc, tokens>>

\* the end of generate: return g.format()
Format ==
    /\ pc = "loop"
    /\ entries = <<>>
    /\ \E ok \in BOOLEAN :
         /\ fmtErr' = IF ok THEN "ok" ELSE "err"
         /\ src' = format(buf, ok)
    /\ pc' = "write"
    /\ UNCHANGED <<buf, entries, remaining, testDef, mark, outFile, writes, inputErr,
                   desc, tokens>>

\* ioutil.WriteFile and the check of its error; a failed write leaves the
\* file as it was or cut short
WriteFile ==
    /\ pc = "write"
    /\ \/ outFile' = src /\ writes' = writes + 1 /\ pc' = "done"
       \/ outFile' \in {outFile, Truncated} /\ pc' = "fatal" /\ UNCHANGED writes
    /\ UNCHANGED <<buf, entries, remaining, testDef, mark, src, fmtErr, inputErr,
                   desc, tokens>>

Next ==
    \/ Main
    \/ SkipEntry
    \/ generateFromFile
    \/ EmitTest(SmallVectors)
    \/ Format
    \/ WriteFile

Spec == Init /\ [][Next]_vars

----------------------------------------------------------------------------
(* The loop body alone, over the wide set of vectors: the run stands in    *)
(* generateFromFile with one test definition left in the only file.        *)

InitEmit ==
    /\ pc = "tests"
    /\ buf = Preamble
    /\ entries = <<>>
    /\ remaining = 1
    /\ testDef = <<>>
    /\ mark = 0
    /\ src = Truncated
    /\ fmtErr = "none"
    /\ outFile = Prior
    /\ writes = 0
    /\ inputErr = "none"
    /\ desc = <<>>
    /\ tokens = <<>>

NextEmit == EmitTest(RichVectors)

SpecEmit == InitEmit /\ [][NextEmit]_vars

----------------------------------------------------------------------------
(* The sanitizer alone, applied again and again to a description *)

SanAlphabet == {"a", "_", " ", "'", "-", ",", "(", ")"}

Descriptions == UNION { [1..k -> SanAlphabet] : k \in 0..MaxLen }

InitSan ==
    /\ pc = "san"
    /\ buf = <<>>
    /\ entries = <<>>
    /\ remaining = 0
    /\ testDef = <<>>
    /\ mark = 0
    /\ src = Truncated
    /\ fmtErr = "none"
    /\ outFile = Prior
    /\ writes = 0
    /\ inputErr = "none"
    /\ desc \in Descriptions
    /\ tokens = <<>>

ApplySanitizer ==
    /\ pc = "san"
    /\ Len(tokens) < MaxApply
    /\ tokens' = Append(tokens, replaceCharacters(IF tokens = <<>> THEN desc
                                                   ELSE tokens[Len(tokens)],
                                                  Disallowed, Replacement))
    /\ UNCHANGED <<pc, buf, entries, remaining, testDef, mark, src, fmtErr, outFile,
                   writes, inputErr, desc>>

NextSan == ApplySanitizer

SpecSan == InitSan /\ [][NextSan]_vars

----------------------------------------------------------------------------
(* What the claims speak of *)

\* the lines the loop body appended for the test definition it last took
Block == SubSeq(buf, mark + 1, Len(buf))

TD == testDef[1]

\* the loop body has acted on a test definition
Emitted == testDef # <<>>

StartsWith(line, p) == Len(line) >= Len(p) /\ SubSeq(line, 1, Len(p)) = p

\* the places of the checks (if statements) of a block
Checks(blk) == { i \in DOMAIN blk : blk[i] # <<>> /\ Head(blk[i]) = "if " }

\* the places of the comparisons of the expression nm
AssertsOn(blk, nm) == { i \in DOMAIN blk : StartsWith(blk[i], <<"if ">> \o nm \o <<" != ">>) }

\* the comparison of nm with the string literal lit
StringAssert(nm, lit) == <<"if ">> \o nm \o <<" != ", DQ>> \o lit \o <<DQ, " {">>

\* every byte 0 of s written as the four characters \x00
RECURSIVE Escaped(_)
Escaped(s) ==
    IF s = <<>> THEN <<>>
    ELSE (IF Head(s) = NUL THEN <<BS, "x", "0", "0">> ELSE <<Head(s)>>) \o Escaped(Tail(s))

\* the expressions of the parsed URI a check can read
UriFields ==
    { "uri.Hosts[", "len(uri.Hosts)", "uri.Username", "uri.Password", "uri.PasswordSet",
      "uri.Database", "uri.AuthMechanism", "uri.AuthMechanismProperties[",
      "uri.ReplicaSet", "uri.WTimeout" }

Mentions(blk, field) == \E i \in DOMAIN blk : \E j \in DOMAIN blk[i] : blk[i][j] = field

\* the canonical rendering of a host of a vector
Canon(h) ==
    (IF h.type = "ip_literal" THEN <<"[">> \o h.host \o <<"]">> ELSE h.host)
    \o (IF h.port = 0 THEN <<>> ELSE <<":">> \o Sprintd(h.port))

IsHostAssert(line) == Len(line) >= 2 /\ line[1] = "if " /\ line[2] = "uri.Hosts["

DigitValue(c) == CHOOSE d \in 0..9 : DigitChar(d) = c

\* the number a decimal numeral denotes
RECURSIVE ParseDec(_)
ParseDec(ds) ==
    IF ds = <<>> THEN 0
    ELSE 10 * ParseDec(SubSeq(ds, 1, Len(ds) - 1)) + DigitValue(ds[Len(ds)])

\* the milliseconds a write-timeout check expects: the numeral between
\* "time.Duration(" and ") * time.Millisecond"
ExpectedMillis(line) == ParseDec(SubSeq(line, 5, Len(line) - 2))

IsDurationAssert(line) ==
    /\ Len(line) >= 7
    /\ SubSeq(line, 1, 4) = <<"if ", "uri.WTimeout", " != ", "time.Duration(">>
    /\ SubSeq(line, Len(line) - 1, Len(line)) = <<") * time.Millisecond", " {">>

----------------------------------------------------------------------------
(* The claims *)

\* C1: for every positive vector the block holds exactly one uri.Database
\* comparison, expecting the escaped auth.db, or "" when auth is absent, and
\* the emission of the block ends normally.
C1_DatabaseAlways ==
    (Emitted /\ TD.valid) =>
        /\ pc # "panic"
        /\ Cardinality(AssertsOn(Block, <<"uri.Database">>)) = 1
        /\ \A i \in AssertsOn(Block, <<"uri.Database">>) :
             Block[i] = StringAssert(<<"uri.Database">>,
                                     Escaped(IF TD.auth = <<>> THEN <<>> ELSE TD.auth[1].db))

\* C2: for every negative vector the block holds exactly one check, that
\* ParseURI returned an error, and no host, credential, database or option
\* check, whatever hosts, auth and options hold; the block is closed and the
\* loop goes on.
C2_NegativeOnlyError ==
    (Emitted /\ ~TD.valid) =>
        /\ Cardinality(Checks(Block)) = 1
        /\ \A i \in Checks(Block) :
             /\ Block[i] = <<"if ", "err == nil", " {">>
             /\ i > 1
             /\ Head(Block[i - 1]) = "_, err := ParseURI("
        /\ \A f \in UriFields : ~Mentions(Block, f)
        /\ Block[Len(Block)] = <<"}">>
        /\ pc \in {"tests", "loop"}

C2_Witness ==
    /\ Emitted
    /\ ~TD.valid
    /\ Len(TD.hosts) = 2
    /\ TD.auth # <<>>
    /\ DOMAIN TD.options = {"wtimeoutms", "journal"}

\* C3: no raw byte 0 of a vector field reaches the generated text: every
\* value embedded into a string literal has it replaced by \x00.
C3_NoRawNul ==
    \A i \in DOMAIN buf : \A j \in DOMAIN buf[i] : buf[i][j] # NUL

\* C4: for every positive vector the block holds one host-count check
\* expecting len(hosts), followed by exactly len(hosts) host comparisons on
\* uri.Hosts[0], uri.Hosts[1], ... in that order, the i-th expecting the
\* canonical rendering of hosts[i].
C4_HostsInOrder ==
    (Emitted /\ TD.valid) =>
        /\ Cardinality(AssertsOn(Block, <<"len(uri.Hosts)">>)) = 1
        /\ \A c \in AssertsOn(Block, <<"len(uri.Hosts)">>) :
             /\ Block[c] = <<"if ", "len(uri.Hosts)", " != ">>
                           \o Sprintd(Len(TD.hosts)) \o <<" {">>
             /\ \A i \in DOMAIN Block : IsHostAssert(Block[i]) => c < i
        /\ SelectSeq(Block, IsHostAssert)
             = [ i \in 1..Len(TD.hosts) |->
                   StringAssert(<<"uri.Hosts[">> \o Sprintd(i - 1) \o <<"]">>,
                                Canon(TD.hosts[i])) ]

C4_Witness ==
    /\ Emitted
    /\ TD.valid
    /\ Len(TD.hosts) = 2
    /\ TD.hosts[1].type = "ip_literal"
    /\ TD.hosts[2].port = 0
    /\ pc = "loop"

\* C5: for every positive vector, with auth absent the block compares
\* uri.Username with "", checks uri.PasswordSet, and compares no
\* uri.Password; with auth present it compares uri.Username and
\* uri.Password with the escaped values and checks no PasswordSet.
C5_Credentials ==
    (Emitted /\ TD.valid) =>
        /\ Cardinality(AssertsOn(Block, <<"uri.Username">>)) = 1
        /\ \A i \in AssertsOn(Block, <<"uri.Username">>) :
             Block[i] = StringAssert(<<"uri.Username">>,
                            IF TD.auth = <<>> THEN <<>> ELSE Escaped(TD.auth[1].username))
        /\ IF TD.auth = <<>>
           THEN /\ Cardinality({ i \in DOMAIN Block :
                                   Block[i] = <<"if ", "uri.PasswordSet", " {">> }) = 1
                /\ ~Mentions(Block, "uri.Password")
           ELSE /\ Cardinality(AssertsOn(Block, <<"uri.Password">>)) = 1
                /\ \A i \in AssertsOn(Block, <<"uri.Password">>) :
                     Block[i] = StringAssert(<<"uri.Password">>, Escaped(TD.auth[1].password))
                /\ ~Mentions(Block, "uri.PasswordSet")

C5_Witness ==
    /\ Emitted
    /\ TD.valid
    /\ TD.auth # <<>>
    /\ TD.auth[1].username = <<>>
    /\ TD.auth[1].password = <<>>
    /\ pc = "loop"

\* C5, the other case: a positive vector without auth has been taken
C5_WitnessAbsent == Emitted /\ TD.valid /\ TD.auth = <<>>

OptionFields ==
    { "uri.AuthMechanism", "uri.AuthMechanismProperties[", "uri.ReplicaSet", "uri.WTimeout" }

\* what C6 says of a block
OptionDefaults ==
    /\ (DOMAIN TD.options # {}) <=>
          /\ Cardinality(AssertsOn(Block, <<"uri.AuthMechanism">>)) = 1
          /\ Cardinality(AssertsOn(Block, <<"uri.ReplicaSet">>)) = 1
    /\ \A i \in AssertsOn(Block, <<"uri.AuthMechanism">>) :
         Block[i] = StringAssert(<<"uri.AuthMechanism">>,
                        IF "authmechanism" \in DOMAIN TD.options
                        THEN Escaped(TD.options["authmechanism"]) ELSE <<>>)
    /\ \A i \in AssertsOn(Block, <<"uri.ReplicaSet">>) :
         Block[i] = StringAssert(<<"uri.ReplicaSet">>,
                        IF "replicaset" \in DOMAIN TD.options
                        THEN Escaped(TD.options["replicaset"]) ELSE <<>>)
    /\ (DOMAIN TD.options = {}) => \A f \in OptionFields : ~Mentions(Block, f)

\* C6: for every positive vector the block holds exactly one
\* uri.AuthMechanism and one uri.ReplicaSet comparison if and only if options
\* is non-empty, each expecting the escaped value of its key or "" when the
\* key is missing; with empty options it holds no option check.
C6_OptionDefaults == (Emitted /\ TD.valid) => OptionDefaults

\* C6 holds of the positive vectors whose auth is present
C6_WhenAuthPresent == (Emitted /\ TD.valid /\ TD.auth # <<>>) => OptionDefaults

\* what C7 says of a block
WTimeoutExact ==
    /\ ("wtimeoutms" \in DOMAIN TD.options) <=>
          Cardinality({ i \in DOMAIN Block : IsDurationAssert(Block[i]) }) = 1
    /\ \A i \in DOMAIN Block :
         Mentions(<<Block[i]>>, "uri.WTimeout") /\ Head(Block[i]) = "if " =>
            /\ IsDurationAssert(Block[i])
            /\ "wtimeoutms" \in DOMAIN TD.options
            /\ ExpectedMillis(Block[i]) = TD.options["wtimeoutms"]

\* C7: for every positive vector a uri.WTimeout check is emitted if and
\* only if options holds wtimeoutms, and it expects exactly that number of
\* milliseconds as a duration.
C7_WTimeoutExact == (Emitted /\ TD.valid) => WTimeoutExact

\* C7 holds of the positive vectors whose auth is present
C7_WhenAuthPresent == (Emitted /\ TD.valid /\ TD.auth # <<>>) => WTimeoutExact

Clean(d) == \A i \in DOMAIN d : \A k \in DOMAIN Disallowed : d[i] # Disallowed[k]

\* C8: the sanitizer is idempotent, and leaves unchanged a description that
\* holds none of the disallowed characters.
C8_SanitizeIdempotent ==
    /\ \A i \in DOMAIN tokens : tokens[i] = tokens[1]
    /\ (tokens # <<>> /\ Clean(desc)) => tokens[1] = desc

C8_Witness == Len(tokens) = 2 /\ tokens[1] # desc /\ Len(desc) = 3

\* C8, the other case: a description free of disallowed characters
C8_WitnessClean == Len(tokens) = 2 /\ Clean(desc) /\ Len(desc) = 3

\* C9: a failure of the listing, of a read or of an unmarshal ends the run
\* before the write; the output file is written at most once, only after
\* every entry has been processed without error, and until then it keeps its
\* prior content.
C9_NoPartialOutput ==
    /\ writes <= 1
    /\ inputErr # "none" => (pc = "fatal" /\ writes = 0 /\ outFile = Prior)
    /\ writes = 1 => (inputErr = "none" /\ entries = <<>> /\ remaining = 0 /\ pc = "done")
    /\ pc \in {"main", "loop", "tests", "write", "panic"} => (writes = 0 /\ outFile = Prior)

C9_Witness ==
    /\ inputErr = "unmarshal"
    /\ pc = "fatal"
    /\ Emitted
    /\ Len(buf) > Len(Preamble)

\* C10: when format.Source fails, format returns the buffer as it is and
\* main writes exactly that; when it succeeds, the formatted text is written.
C10_FormatFallback ==
    /\ fmtErr = "err" => src = Content(FALSE, buf)
    /\ fmtErr = "ok" => src = FormatSource(buf)
    /\ pc = "done" => (fmtErr # "none" /\ outFile = src)

C10_Witness ==
    /\ pc = "done"
    /\ fmtErr = "err"
    /\ Emitted
    /\ outFile.text = buf
    /\ Len(buf) > Len(Preamble)

\* C10, the other case: the formatted text has been written
C10_WitnessFormatted == pc = "done" /\ fmtErr = "ok" /\ Emitted /\ outFile = FormatSource(buf)

====
